---- MODULE Spec2Model ----
(***************************************************************************)
(* A model of the LM4F120 UART driver (primer/src/lm4f120h5qr/uart.rs) and *)
(* of the way the blink example drives a UART.  One program thread runs    *)
(* the driver's statements one register access at a time; the UART         *)
(* hardware (TX FIFO drain, RX FIFO fill) runs beside it.                   *)
(***************************************************************************)
EXTENDS Integers, Sequences, FiniteSets, TLC

\* ------------------------------------------------------------------ bounds
\* Number of driver calls (new, init, write_str, getc_try) the application makes.
MaxCalls == 2
\* Number of write_str calls that follow new in the transmit specification.
MaxWrites == 3
\* Number of new/init calls in the construction specification.
MaxNew == 3
\* Longest string of the strings enumerated in full; "A\nB" is added to them.
MaxLen == 1
\* Depth of the transmit FIFO.
TxDepth == 2
\* Depth of the receive FIFO.
RxDepth == 1
\* Number of steps of the SysTick counter.
MaxTicks == 3

\* --------------------------------------------------------------- constants
\* registers::UART_CTL_* , UART_LCRH_WLEN_8 and UART_FR_* bit masks.
UART_CTL_UARTEN == 1
UART_CTL_TXE == 256
UART_CTL_RXE == 512
UART_LCRH_WLEN_8 == 96
UART_FR_TXFF == 32
UART_FR_RXFE == 16
\* Base addresses of the eight register blocks (registers::UARTn_DR_R).
UART0_DR_R == 1073790976
UART1_DR_R == 1073795072
UART2_DR_R == 1073799168
UART3_DR_R == 1073803264
UART4_DR_R == 1073807360
UART5_DR_R == 1073811456
UART6_DR_R == 1073815552
UART7_DR_R == 1073819648
\* The bytes the model's strings are made of.
LF == 10
CR == 13
ChA == 65
ChB == 66

\* enum UartId { Uart0 .. Uart7 }
UartId == 0..7

\* Baud rates the application asks for in the full specification.
AppBauds == {0, 115200}
\* Baud rates of the divisor specifications: all standard rates and corner cases.
BaudRates == {0, 1, 2, 3, 75, 110, 300, 1200, 2400, 4800, 9600, 14400, 19200,
              38400, 57600, 115200, 230400, 460800, 921600, 1000000, 3000000,
              4125000, 33000000, 66000000, 264000000, 352000000, 527999999,
              528000000, 528000001, 1056000000, 1056000001}
\* Ids the application constructs in the full specification.
AppIds == {0, 7}
\* Clock-gate register contents at start of the construction specifications:
\* the reset value, or gates already open.
InitialGates == {0, 130}
\* Control register contents before the first init: nothing enabled, or the
\* transmit and receive enables set with the module enable clear.
InitialCtls == {0, UART_CTL_RXE + UART_CTL_TXE}

Alphabet == {LF, ChA}
RxBytes == {ChA}

RECURSIVE SeqsUpTo(_)
SeqsUpTo(n) ==
    IF n = 0 THEN {<< >>}
    ELSE LET shorter == SeqsUpTo(n - 1)
         IN  shorter \cup {Append(s, b) : s \in {t \in shorter : Len(t) = n - 1}, b \in Alphabet}
Strings == SeqsUpTo(MaxLen) \cup {<<ChA, LF, ChB>>}

VARIABLES
    rcgcuart,   \* SYSCTL_RCGCUART_R
    gpio,       \* UartIds whose pins gpio::enable_uart has muxed
    uart,       \* register block address -> [ctl, ibrd, fbrd, lcrh, tx, rx]
    wire,       \* register block address -> bytes the peer has received
    handles,    \* the live Uart values, in order of construction
    pc,         \* what the program is executing
    ip,         \* index of init's next statement
    self,       \* index in handles of the Uart the running method is called on
    reg,        \* init's local `reg`
    baud_int,   \* init's local `baud_int`
    arg,        \* write_str's `s`
    idx,        \* position of write_str's iterator in s
    more,       \* register blocks whose next access is the data store of a later write_str
    value,      \* putc's `value`
    fr,         \* the flag register value last read
    ret,        \* what the last call returned
    calls,      \* number of driver calls made
    method,     \* the driver call that is running (or ran last)
    trace,      \* register writes of the running (or last) init, in order
    pushed,     \* data register writes of the running (or last) write_str
    accesses,   \* register accesses of the running (or last) getc_try
    lost,       \* a byte was written to a full TX FIFO
    rcgc0,      \* rcgcuart at start
    held,       \* register block -> the flag register value the compiled code holds for it (none or one)
    elided,     \* register blocks whose last data store was left to a later store
    systick,    \* the SysTick current-value register
    ticks_last, \* main's `ticks_last`
    delta,      \* main's `delta`
    tpc,        \* where main stands between its two SysTick calls
    elapsed,    \* ticks counted by the hardware since ticks_last was read
    wraps,      \* reloads of the counter since ticks_last was read
    sample,     \* previous, current, elapsed and wraps at the last get_since
    nticks      \* number of hardware tick steps taken

uartVars == <<rcgcuart, gpio, uart, wire, handles, pc, ip, self, reg, baud_int, arg,
              idx, more, value, fr, ret, calls, method, trace, pushed, accesses, lost,
              rcgc0, held, elided>>
\* What the compiled code does with the plain (non-volatile) accesses to rf and data.
ccVars == <<held, elided>>
tickVars == <<systick, ticks_last, delta, tpc, elapsed, wraps, sample, nticks>>
vars == <<rcgcuart, gpio, uart, wire, handles, pc, ip, self, reg, baud_int, arg,
          idx, more, value, fr, ret, calls, method, trace, pushed, accesses, lost,
          rcgc0, held, elided, systick, ticks_last, delta, tpc, elapsed, wraps, sample, nticks>>

\* ---------------------------------------------------------- bit arithmetic
Pow2(n) == 2 ^ n
\* x & mask != 0, for a one-bit mask
HasBit(x, mask) == (x \div mask) % 2 = 1
\* x | mask, for a one-bit mask
SetBit(x, mask) == IF HasBit(x, mask) THEN x ELSE x + mask
BitsOf(x) == {n \in UartId : HasBit(x, Pow2(n))}

\* ------------------------------------------------------- pure computations
get_uart_registers_pasted(id) ==
    CASE id = 0 -> UART0_DR_R
      [] id = 1 -> UART0_DR_R
      [] id = 2 -> UART2_DR_R
      [] id = 3 -> UART3_DR_R
      [] id = 4 -> UART4_DR_R
      [] id = 5 -> UART5_DR_R
      [] id = 6 -> UART6_DR_R
      [] id = 7 -> UART7_DR_R
\* fn get_uart_registers(uart: UartId): the register block of an id.
get_uart_registers(id) ==
    CASE id = 0 -> UART0_DR_R
      [] id = 1 -> UART1_DR_R
      [] id = 2 -> UART2_DR_R
      [] id = 3 -> UART3_DR_R
      [] id = 4 -> UART4_DR_R
      [] id = 5 -> UART5_DR_R
      [] id = 6 -> UART6_DR_R
      [] id = 7 -> UART7_DR_R

Blocks == {get_uart_registers(id) : id \in UartId}

\* match self.id { UartId::UartN => 1 << N }
GateMask(id) == Pow2(id)

BlindGateStore(r, id) == GateMask(id)
\* reg |= 1 << N : the value init stores back to RCGCUART.
GateStore(r, id) == SetBit(r, GateMask(id))

BaudIntTruncated(baud) == ((66000000 * 8) \div baud) \div 2
\* (((66000000 * 8) / self.baud) + 1) / 2 in u32; every intermediate value is
\* at most 528000001, so the 32-bit width never wraps.
BaudInt(baud) == (((66000000 * 8) \div baud) + 1) \div 2

\* (baud_int / 64) as usize
IbrdOf(b) == b \div 64
FbrdLowFiveBits(b) == b % 32
\* (baud_int % 64) as usize
FbrdOf(b) == b % 64

CtlEnableWithoutRx == UART_CTL_TXE + UART_CTL_UARTEN
\* UART_CTL_RXE | UART_CTL_TXE | UART_CTL_UARTEN (three distinct bits)
CtlEnable == UART_CTL_RXE + UART_CTL_TXE + UART_CTL_UARTEN

InitStepsGateLate ==
    <<"gpio", "ctl0", "load", "store", "calc", "ibrd", "fbrd", "lcrh", "rf", "enable">>
InitStepsLineControlFirst ==
    <<"gpio", "load", "store", "ctl0", "calc", "lcrh", "ibrd", "fbrd", "rf", "enable">>
InitStepsCalcBeforeDisable ==
    <<"gpio", "load", "store", "calc", "ctl0", "ibrd", "fbrd", "lcrh", "rf", "enable">>
\* The statements of init, in program order.
InitSteps ==
    <<"gpio", "load", "store", "ctl0", "calc", "ibrd", "fbrd", "lcrh", "rf", "enable">>

RxEmptyWrongBit(rf) == HasBit(rf, UART_FR_TXFF)
\* (self.reg.get_mut().rf & registers::UART_FR_TXFF) != 0
TxBusy(rf) == HasBit(rf, UART_FR_TXFF)

\* The RX-FIFO-empty test of getc_try.
RxEmpty(rf) == HasBit(rf, UART_FR_RXFE)

\* for byte in s.bytes() { self.putc(byte) }: the byte the next putc gets and
\* where the iterator stands after it. Every byte of s is passed on as it is.
WsNext(s, i) == [value |-> s[i], idx |-> i + 1]

\* ---------------------------------------------------------------- hardware
\* A register block before the first init, with c in its control register.
ResetBlock(c) == [ctl |-> c, ibrd |-> 0, fbrd |-> 0, lcrh |-> 0, tx |-> << >>, rx |-> << >>]

\* The flag register as the hardware presents it: TXFF while the TX FIFO is
\* full, RXFE while the RX FIFO is empty.
FlagRegister(u) ==
    (IF Len(u.tx) >= TxDepth THEN UART_FR_TXFF ELSE 0)
    + (IF Len(u.rx) = 0 THEN UART_FR_RXFE ELSE 0)

\* ------------------------------------------------------------ the program
H == handles[self]
Blk == H.reg

Wr(r, v) == [r |-> r, v |-> v]
\* What a call returned: (), Ok(()), Ok(byte), would-block, or a panic.
Ret(tag, v) == [tag |-> tag, val |-> v]

\* The state at start, with `gates` in the clock-gate register and `c` in
\* every control register.
Start(gates, c) ==
    /\ rcgcuart = gates
    /\ rcgc0 = gates
    /\ held = [a \in Blocks |-> {}]
    /\ elided = {}
    /\ gpio = {}
    /\ uart = [a \in Blocks |-> ResetBlock(c)]
    /\ wire = [a \in Blocks |-> << >>]
    /\ handles = << >>
    /\ pc = "idle"
    /\ ip = 0
    /\ self = 0
    /\ reg = 0
    /\ baud_int = 0
    /\ arg = << >>
    /\ idx = 0
    /\ more = {}
    /\ value = 0
    /\ fr = 0
    /\ ret = Ret("none", 0)
    /\ calls = 0
    /\ method = "none"
    /\ trace = << >>
    /\ pushed = << >>
    /\ accesses = 0
    /\ lost = FALSE

\* After reset every clock gate is closed.
\* The SysTick reload value: the counter counts SYSTICK_MAX, ..., 1, 0 and
\* starts over from SYSTICK_MAX.
SYSTICK_MAX == 16777215
\* Counter values at the moment main starts.
TickStarts == {0, 10, 100, SYSTICK_MAX}
\* Numbers of ticks the hardware counts between two steps of the program.
TickJumps == {1, 10, 16, SYSTICK_MAX}

get_since_plain(previous, current) == previous - current
\* systick::get_since, given the counter value it reads: the ticks from
\* `previous` down to `current` on the counter's circle of SYSTICK_MAX + 1 values.
get_since(previous, current) == (previous - current) % (SYSTICK_MAX + 1)

Sample(previous, current, ticks, reloads) ==
    [previous |-> previous, current |-> current, elapsed |-> ticks, wraps |-> reloads]

\* main with the counter at its reload value, as the hardware loads it.
TickIdle ==
    /\ systick = SYSTICK_MAX
    /\ ticks_last = SYSTICK_MAX
    /\ delta = 0
    /\ tpc = "loop"
    /\ elapsed = 0
    /\ wraps = 0
    /\ sample = Sample(SYSTICK_MAX, SYSTICK_MAX, 0, 0)
    /\ nticks = 0

\* init does not read the control register: it runs on whatever it finds there.
Init == \E c \in InitialCtls : Start(0, c) /\ TickIdle
\* Other start-up code may have opened some gates already.
InitGated == \E gates \in InitialGates, c \in InitialCtls : Start(gates, c) /\ TickIdle

hwVars == <<uart, wire, lost>>
ioVars == <<arg, idx, more, value, fr, pushed, accesses, held, elided>>
initLocals == <<reg, baud_int>>

\* Leaving an init statement: on to the next one, or back to the caller.
Advance ==
    IF ip < Len(InitSteps)
    THEN /\ ip' = ip + 1
         /\ UNCHANGED <<pc, ret>>
    ELSE /\ ip' = 0
         /\ pc' = "idle"
         /\ ret' = Ret("unit", 0)

At(step) == pc = "init" /\ ip \in DOMAIN InitSteps /\ InitSteps[ip] = step

\* Uart::new(id, baud): build the value, then uart.init().
New(id, baud) ==
    /\ pc = "idle"
    /\ elided = {}
    /\ more = {}
    /\ calls' = calls + 1
    /\ method' = "new"
    /\ handles' = Append(handles, [id |-> id, baud |-> baud,
                                   reg |-> get_uart_registers(id)])
    /\ self' = Len(handles) + 1
    /\ pc' = "init"
    /\ ip' = 1
    /\ trace' = << >>
    /\ ret' = Ret("none", 0)
    /\ UNCHANGED <<rcgcuart, gpio, hwVars, ioVars, initLocals, rcgc0, tickVars>>

\* uart.init() on a Uart that new has already returned.
ReInit(h) ==
    /\ pc = "idle"
    /\ elided = {}
    /\ more = {}
    /\ h \in DOMAIN handles
    /\ calls' = calls + 1
    /\ method' = "init"
    /\ self' = h
    /\ pc' = "init"
    /\ ip' = 1
    /\ trace' = << >>
    /\ ret' = Ret("none", 0)
    /\ UNCHANGED <<rcgcuart, gpio, hwVars, handles, ioVars, initLocals, rcgc0, tickVars>>

\* gpio::enable_uart(self.id)
InitGpio ==
    /\ At("gpio")
    /\ gpio' = gpio \cup {H.id}
    /\ trace' = Append(trace, Wr("gpio", H.id))
    /\ Advance
    /\ UNCHANGED <<rcgcuart, hwVars, handles, self, ioVars, initLocals, calls, method, rcgc0, tickVars>>

\* let mut reg = volatile_load(SYSCTL_RCGCUART_R)
InitLoadGate ==
    /\ At("load")
    /\ reg' = rcgcuart
    /\ Advance
    /\ UNCHANGED <<rcgcuart, gpio, hwVars, handles, self, ioVars, baud_int, calls, method,
                   trace, rcgc0, tickVars>>

\* reg |= 1 << N; volatile_store(SYSCTL_RCGCUART_R, reg)
InitStoreGate ==
    /\ At("store")
    /\ reg' = GateStore(reg, H.id)
    /\ rcgcuart' = reg'
    /\ trace' = Append(trace, Wr("rcgc", reg'))
    /\ Advance
    /\ UNCHANGED <<gpio, hwVars, handles, self, ioVars, baud_int, calls, method, rcgc0, tickVars>>

\* self.reg.get_mut().ctl = 0: a plain store that the enabling store of the
\* same call overwrites with no read of ctl in between. The compiled code
\* either makes it or, on the path where the division does not panic, leaves
\* it out.
InitDisable ==
    /\ At("ctl0")
    /\ \/ /\ uart' = [uart EXCEPT ![Blk].ctl = 0]
          /\ trace' = Append(trace, Wr("ctl", 0))
       \/ /\ H.baud # 0
          /\ UNCHANGED <<uart, trace>>
    /\ Advance
    /\ UNCHANGED <<rcgcuart, gpio, wire, lost, handles, self, ioVars, initLocals,
                   calls, method, rcgc0, tickVars>>

\* let baud_int: u32 = ...; a zero baud panics on the division.
InitCalc ==
    /\ At("calc")
    /\ IF H.baud = 0
       THEN /\ pc' = "panicked"
            /\ ret' = Ret("panic", 0)
            /\ UNCHANGED <<ip, baud_int>>
       ELSE /\ baud_int' = BaudInt(H.baud)
            /\ Advance
    /\ UNCHANGED <<rcgcuart, gpio, hwVars, handles, self, ioVars, reg, calls, method, trace,
                   rcgc0, tickVars>>

\* self.reg.get_mut().ibrd = (baud_int / 64) as usize
InitIbrd ==
    /\ At("ibrd")
    /\ uart' = [uart EXCEPT ![Blk].ibrd = IbrdOf(baud_int)]
    /\ trace' = Append(trace, Wr("ibrd", IbrdOf(baud_int)))
    /\ Advance
    /\ UNCHANGED <<rcgcuart, gpio, wire, lost, handles, self, ioVars, initLocals,
                   calls, method, rcgc0, tickVars>>

\* self.reg.get_mut().fbrd = (baud_int % 64) as usize
InitFbrd ==
    /\ At("fbrd")
    /\ uart' = [uart EXCEPT ![Blk].fbrd = FbrdOf(baud_int)]
    /\ trace' = Append(trace, Wr("fbrd", FbrdOf(baud_int)))
    /\ Advance
    /\ UNCHANGED <<rcgcuart, gpio, wire, lost, handles, self, ioVars, initLocals,
                   calls, method, rcgc0, tickVars>>

\* self.reg.get_mut().lcrh = registers::UART_LCRH_WLEN_8
InitLcrh ==
    /\ At("lcrh")
    /\ uart' = [uart EXCEPT ![Blk].lcrh = UART_LCRH_WLEN_8]
    /\ trace' = Append(trace, Wr("lcrh", UART_LCRH_WLEN_8))
    /\ Advance
    /\ UNCHANGED <<rcgcuart, gpio, wire, lost, handles, self, ioVars, initLocals,
                   calls, method, rcgc0, tickVars>>

\* self.reg.get_mut().rf = 0 : the flag register's FIFO status bits are driven
\* by the hardware (FlagRegister), so the store leaves the FIFOs as they are.
\* It is a plain store: the compiled code holds 0 as the value of rf from here.
InitFlags ==
    /\ At("rf")
    /\ trace' = Append(trace, Wr("rf", 0))
    /\ held' = [held EXCEPT ![Blk] = {0}]
    /\ Advance
    /\ UNCHANGED <<rcgcuart, gpio, hwVars, handles, self, arg, idx, more, value, fr,
                   pushed, accesses, elided, initLocals, calls, method, rcgc0, tickVars>>

\* self.reg.get_mut().ctl = UART_CTL_RXE | UART_CTL_TXE | UART_CTL_UARTEN
InitEnable ==
    /\ At("enable")
    /\ uart' = [uart EXCEPT ![Blk].ctl = CtlEnable]
    /\ trace' = Append(trace, Wr("ctl", CtlEnable))
    /\ Advance
    /\ UNCHANGED <<rcgcuart, gpio, wire, lost, handles, self, ioVars, initLocals,
                   calls, method, rcgc0, tickVars>>

InitStep ==
    \/ InitGpio
    \/ InitLoadGate
    \/ InitStoreGate
    \/ InitDisable
    \/ InitCalc
    \/ InitIbrd
    \/ InitFbrd
    \/ InitLcrh
    \/ InitFlags
    \/ InitEnable

\* The blocks whose next access is a data store of a later write_str, once
\* write_str(s) has been called on handle h: a non-empty s is that later
\* write_str for its own block, and m says whether the program goes on, after
\* this call, to another write_str that stores to the same block with no
\* other access to the block in between.
Promises(h, s, m) ==
    (IF s # << >> THEN more \ {handles[h].reg} ELSE more)
        \cup (IF m THEN {handles[h].reg} ELSE {})

\* uart.write_str(s) on a Uart that new has returned. write_str and putc are
\* inlined into their caller: what the compiled code holds is kept across the
\* call, and a data store left out by a call before is replaced by a store
\* of this one or of a later one.
WriteStr(h, s, m) ==
    /\ pc = "idle"
    /\ h \in DOMAIN handles
    /\ calls' = calls + 1
    /\ method' = "write_str"
    /\ self' = h
    /\ arg' = s
    /\ idx' = 1
    /\ more' = Promises(h, s, m)
    /\ pushed' = << >>
    /\ pc' = "write_str"
    /\ ret' = Ret("none", 0)
    /\ UNCHANGED <<rcgcuart, gpio, hwVars, handles, ip, initLocals, value, fr, trace,
                   accesses, rcgc0, tickVars, ccVars>>

\* for byte in s.bytes(): the next putc call, or Ok(()) at the end of s.
WsIter ==
    /\ pc = "write_str"
    /\ IF idx > Len(arg)
       THEN /\ pc' = "idle"
            /\ ret' = Ret("Ok", 0)
            /\ UNCHANGED <<value, idx>>
       ELSE LET n == WsNext(arg, idx)
            IN  /\ value' = n.value
                /\ idx' = n.idx
                /\ pc' = "putc_wait"
                /\ UNCHANGED ret
    /\ UNCHANGED <<rcgcuart, gpio, hwVars, handles, ip, self, initLocals, arg, fr, more,
                   calls, method, trace, pushed, accesses, rcgc0, tickVars, ccVars>>

\* while (rf & UART_FR_TXFF) != 0 { NOP }: one evaluation of the condition.
\* rf is read with a plain load. The compiled code either loads the flag
\* register, or evaluates the condition on the value it holds for rf (stored
\* by init or loaded by an earlier evaluation): a held value with TXFF clear
\* ends the wait without a load, and a loop compiled to test a held value
\* with TXFF set has no exit. After a left-out data store no access to the
\* block comes before the store that replaces it.
PutcPoll ==
    /\ pc = "putc_wait"
    /\ \/ /\ Blk \notin elided
          /\ fr' = FlagRegister(uart[Blk])
          /\ held' = [held EXCEPT ![Blk] = {fr'}]
          /\ pc' = IF TxBusy(fr') THEN "putc_wait" ELSE "putc_write"
       \/ \E v \in held[Blk] :
             /\ TxBusy(v) => (elided = {} /\ more = {})
             /\ fr' = v
             /\ pc' = IF TxBusy(v) THEN "putc_spin" ELSE "putc_write"
             /\ UNCHANGED held
    /\ UNCHANGED <<rcgcuart, gpio, hwVars, handles, ip, self, initLocals, arg, idx,
                   more, value, ret, calls, method, trace, pushed, accesses, rcgc0,
                   elided, tickVars>>

PutcWriteToCtl ==
    /\ pc = "putc_write"
    /\ uart' = [uart EXCEPT ![Blk].ctl = value]
    /\ pushed' = Append(pushed, value)
    /\ elided' = elided \ {Blk}
    /\ pc' = "write_str"
    /\ UNCHANGED <<rcgcuart, gpio, wire, lost, handles, ip, self, initLocals, arg, idx,
                   more, value, fr, ret, calls, method, trace, accesses, rcgc0, held,
                   tickVars>>
\* self.reg.get_mut().data = value as usize: a plain store. The compiled code
\* either makes it (a full FIFO drops the byte) or leaves it out, when a later
\* store to data follows with no access to the block in between: the store of
\* a later byte of this write_str, or that of a write_str the program goes on
\* to.
PutcWrite ==
    /\ pc = "putc_write"
    /\ \/ /\ IF Len(uart[Blk].tx) < TxDepth
             THEN /\ uart' = [uart EXCEPT ![Blk].tx = Append(@, value)]
                  /\ UNCHANGED lost
             ELSE /\ lost' = TRUE
                  /\ UNCHANGED uart
          /\ pushed' = Append(pushed, value)
          /\ elided' = elided \ {Blk}
       \/ /\ idx <= Len(arg) \/ Blk \in more
          /\ elided' = elided \cup {Blk}
          /\ UNCHANGED <<uart, lost, pushed>>
    /\ pc' = "write_str"
    /\ UNCHANGED <<rcgcuart, gpio, wire, handles, ip, self, initLocals, arg, idx,
                   more, value, fr, ret, calls, method, trace, accesses, rcgc0, held,
                   tickVars>>

\* uart.getc_try()
GetcTry(h) ==
    /\ pc = "idle"
    /\ elided = {}
    /\ more = {}
    /\ h \in DOMAIN handles
    /\ calls' = calls + 1
    /\ method' = "getc_try"
    /\ self' = h
    /\ accesses' = 0
    /\ pc' = "getc_poll"
    /\ ret' = Ret("none", 0)
    /\ UNCHANGED <<rcgcuart, gpio, hwVars, handles, ip, initLocals, arg, idx, more,
                   value, fr, trace, pushed, rcgc0, tickVars, ccVars>>

\* The one check of the RX-FIFO-empty bit.
GetcPoll ==
    /\ pc = "getc_poll"
    /\ fr' = FlagRegister(uart[Blk])
    /\ accesses' = accesses + 1
    /\ IF RxEmpty(fr')
       THEN /\ pc' = "idle"
            /\ ret' = Ret("WouldBlock", 0)
       ELSE /\ pc' = "getc_read"
            /\ UNCHANGED ret
    /\ UNCHANGED <<rcgcuart, gpio, hwVars, handles, ip, self, initLocals, arg, idx,
                   more, value, calls, method, trace, pushed, rcgc0, tickVars, ccVars>>

\* The read of one byte from the data register.
GetcRead ==
    /\ pc = "getc_read"
    /\ ret' = Ret("Ok", Head(uart[Blk].rx))
    /\ uart' = [uart EXCEPT ![Blk].rx = Tail(@)]
    /\ accesses' = accesses + 1
    /\ pc' = "idle"
    /\ UNCHANGED <<rcgcuart, gpio, wire, lost, handles, ip, self, initLocals, arg, idx,
                   more, value, fr, calls, method, trace, pushed, rcgc0, tickVars, ccVars>>

progVars == <<rcgcuart, gpio, handles, pc, ip, self, reg, baud_int, arg, idx, more,
              value, fr, ret, calls, method, trace, pushed, accesses, rcgc0, tickVars, ccVars>>

Transmitting(u) == HasBit(u.ctl, UART_CTL_UARTEN) /\ HasBit(u.ctl, UART_CTL_TXE)
Receiving(u) == HasBit(u.ctl, UART_CTL_UARTEN) /\ HasBit(u.ctl, UART_CTL_RXE)

\* The transmitter shifts the oldest byte of the TX FIFO out to the peer.
HwDrain(b) ==
    /\ Transmitting(uart[b])
    /\ Len(uart[b].tx) > 0
    /\ wire' = [wire EXCEPT ![b] = Append(@, Head(uart[b].tx))]
    /\ uart' = [uart EXCEPT ![b].tx = Tail(@)]
    /\ UNCHANGED <<progVars, lost>>

\* A byte from the peer arrives in the RX FIFO.
HwReceive(b, byte) ==
    /\ Receiving(uart[b])
    /\ Len(uart[b].rx) < RxDepth
    /\ uart' = [uart EXCEPT ![b].rx = Append(@, byte)]
    /\ UNCHANGED <<progVars, wire, lost>>

TxStep ==
    \/ InitStep
    \/ WsIter
    \/ PutcPoll
    \/ PutcWrite

Step ==
    \/ TxStep
    \/ GetcPoll
    \/ GetcRead

\* The program is a finite piece of main: it calls write_str(s) with the
\* promise m of a later store only where the calls that keep every promise
\* are still part of it.
Fits(h, s, m, bound) == calls + Cardinality(Promises(h, s, m)) < bound

Next ==
    \/ \E id \in AppIds, baud \in AppBauds : calls < MaxCalls /\ New(id, baud)
    \/ \E h \in DOMAIN handles : calls < MaxCalls /\ ReInit(h)
    \/ \E h \in DOMAIN handles, s \in Strings, m \in BOOLEAN :
          Fits(h, s, m, MaxCalls) /\ WriteStr(h, s, m)
    \/ \E h \in DOMAIN handles : calls < MaxCalls /\ GetcTry(h)
    \/ Step
    \/ \E b \in Blocks : HwDrain(b)
    \/ \E b \in Blocks, byte \in RxBytes : HwReceive(b, byte)

Spec == Init /\ [][Next]_vars

\* The strings main prints in the transmit specification: nothing, one byte,
\* and a line break between two bytes.
TxStrings == {<< >>, <<ChA>>, <<ChB>>, <<ChA, LF, ChB>>}

\* The transmit path alone: one UART, a new and the write_str calls after it,
\* and the transmitter.
NextTx ==
    \/ calls < 1 /\ New(0, 115200)
    \/ \E h \in DOMAIN handles, s \in TxStrings, m \in BOOLEAN :
          Fits(h, s, m, 1 + MaxWrites) /\ WriteStr(h, s, m)
    \/ TxStep
    \/ \E b \in Blocks : HwDrain(b)

SpecTx == Init /\ [][NextTx]_vars

\* The processor keeps executing and the transmitter keeps shifting bytes out.
FairSpec ==
    Init /\ [][NextTx]_vars /\ WF_vars(TxStep) /\ WF_vars(\E b \in Blocks : HwDrain(b))


\* Construction alone: every id, any clock-gate register to start from.
NextNew ==
    \/ \E id \in UartId, baud \in AppBauds : calls < MaxNew /\ New(id, baud)
    \/ \E h \in DOMAIN handles : calls < MaxNew /\ ReInit(h)
    \/ InitStep

SpecNew == InitGated /\ [][NextNew]_vars

\* One construction, over the whole range of baud rates.
NextBaud ==
    \/ \E baud \in BaudRates : calls < 1 /\ New(0, baud)
    \/ InitStep

SpecBaud == InitGated /\ [][NextBaud]_vars

\* ------------------------------------------------------------------ SysTick
\* The counter counts n ticks down, reloading from SYSTICK_MAX below zero.
HwTick(n) ==
    /\ systick' = (systick - n) % (SYSTICK_MAX + 1)
    /\ elapsed' = elapsed + n
    /\ wraps' = IF n > systick THEN wraps + 1 ELSE wraps
    /\ nticks' = nticks + 1
    /\ UNCHANGED <<uartVars, ticks_last, delta, tpc, sample>>

\* let delta = systick::get_since(ticks_last);
GetSince ==
    /\ tpc = "loop"
    /\ delta' = get_since(ticks_last, systick)
    /\ sample' = Sample(ticks_last, systick, elapsed, wraps)
    /\ tpc' = "since"
    /\ UNCHANGED <<uartVars, systick, ticks_last, elapsed, wraps, nticks>>

\* ticks_last = systick::get_ticks();
GetTicks ==
    /\ tpc = "since"
    /\ ticks_last' = systick
    /\ elapsed' = 0
    /\ wraps' = 0
    /\ tpc' = "loop"
    /\ UNCHANGED <<uartVars, systick, delta, sample, nticks>>

\* main starts with ticks_last = SYSTICK_MAX, the value the counter was loaded
\* with; the counter has counted down from there without reloading.
InitTick ==
    /\ Start(0, 0)
    /\ \E t \in TickStarts :
          /\ systick = t
          /\ elapsed = SYSTICK_MAX - t
          /\ sample = Sample(SYSTICK_MAX, SYSTICK_MAX, 0, 0)
    /\ ticks_last = SYSTICK_MAX
    /\ delta = 0
    /\ tpc = "loop"
    /\ wraps = 0
    /\ nticks = 0

\* The tick measurement of main's loop against the free-running counter.
NextTick ==
    \/ \E n \in TickJumps : nticks < MaxTicks /\ HwTick(n)
    \/ GetSince
    \/ GetTicks

SpecTick == InitTick /\ [][NextTick]_vars

\* ------------------------------------------------------------------ claims
UartRegs == {"ctl", "ibrd", "fbrd", "lcrh", "rf"}
Before(i) == 1..(i - 1)
\* The running (or last) init has stored to RCGCUART with the instance's bit set.
GateWritten(upto) ==
    \E j \in upto : trace[j].r = "rcgc" /\ HasBit(trace[j].v, GateMask(H.id))

\* C1, as stated: in every execution of new/init the clock-gate write comes
\* strictly before the GPIO mux, so no mux step happens with the gate bit not
\* yet set by this call.
C1_GateBeforeMux ==
    \A i \in DOMAIN trace : trace[i].r = "gpio" => GateWritten(Before(i))

\* C1, amended: the GPIO mux is init's first step and comes before the
\* clock-gate write; the clock-gate write comes strictly before every write
\* to a register of the UART instance, which therefore never happens with the
\* instance's gate bit clear.
C1_GateBeforeUartRegisters ==
    /\ \A i \in DOMAIN trace :
          /\ trace[i].r \in UartRegs =>
                GateWritten(Before(i)) /\ HasBit(rcgcuart, GateMask(H.id))
          /\ trace[i].r = "rcgc" => \E j \in Before(i) : trace[j] = Wr("gpio", H.id)
    /\ trace # << >> => trace[1] = Wr("gpio", H.id)

C1_Witness ==
    /\ pc = "idle"
    /\ ret.tag = "unit"
    /\ Len(trace) = 8
    /\ trace[1].r = "gpio"
    /\ trace[2].r = "rcgc"
    /\ trace[3].r = "ctl"
    /\ rcgc0 = 0

\* C2: every write to ibrd or fbrd happens with the control register cleared
\* by this call (UARTEN, TXE and RXE all 0), and the enabling write to the
\* control register comes only after both divisor writes.
C2_DivisorWrittenWhileDisabled ==
    /\ \A i \in DOMAIN trace :
          /\ trace[i].r \in {"ibrd", "fbrd"} =>
                /\ \E j \in Before(i) : trace[j] = Wr("ctl", 0)
                /\ \A j \in Before(i) : trace[j].r = "ctl" => trace[j].v = 0
          /\ (trace[i].r = "ctl" /\ trace[i].v # 0) =>
                /\ \E j \in Before(i) : trace[j].r = "ibrd"
                /\ \E j \in Before(i) : trace[j].r = "fbrd"
    /\ (At("ibrd") \/ At("fbrd")) =>
          /\ ~HasBit(uart[Blk].ctl, UART_CTL_UARTEN)
          /\ ~HasBit(uart[Blk].ctl, UART_CTL_TXE)
          /\ ~HasBit(uart[Blk].ctl, UART_CTL_RXE)
    /\ (pc = "init" /\ uart[Blk].ctl # 0) =>
          \A i \in DOMAIN trace : trace[i].r \notin {"ibrd", "fbrd"}

\* The divisor registers of the running (or last) init have both been written.
DivisorWritten ==
    /\ \E i \in DOMAIN trace : trace[i].r = "ibrd"
    /\ \E i \in DOMAIN trace : trace[i].r = "fbrd"
\* t is the truncated quotient n / d.
IsQuotient(t, n, d) == t >= 0 /\ t * d <= n /\ n < (t + 1) * d

\* C3: with clock 66,000,000 the registers get ibrd = s / 64 and fbrd = s mod 64
\* for s = ((clock * 8) / baud + 1) / 2 in truncating arithmetic; for 115200
\* that is s = 2292, ibrd = 35, fbrd = 52.
C3_DivisorRegisters ==
    DivisorWritten =>
        LET s == 64 * uart[Blk].ibrd + uart[Blk].fbrd
        IN  /\ uart[Blk].fbrd \in 0..63
            /\ uart[Blk].ibrd >= 0
            /\ \/ IsQuotient(2 * s, 528000000, H.baud)
               \/ IsQuotient(2 * s - 1, 528000000, H.baud)
            /\ H.baud = 115200 =>
                  /\ s = 2292
                  /\ uart[Blk].ibrd = 35
                  /\ uart[Blk].fbrd = 52
                  /\ \E i \in DOMAIN trace : trace[i] = Wr("ibrd", 35)
                  /\ \E i \in DOMAIN trace : trace[i] = Wr("fbrd", 52)

C3_Witness ==
    /\ pc = "idle"
    /\ ret.tag = "unit"
    /\ H.baud = 115200
    /\ uart[Blk].ibrd = 35
    /\ uart[Blk].fbrd = 52

\* C8: no two live Uart values refer to the same register block.
C8_OneHandlePerBlock ==
    pc = "idle" =>
        \A i, j \in DOMAIN handles : i # j => handles[i].reg # handles[j].reg

\* Ids whose construction has got as far as the clock-gate store.
Gated ==
    {handles[k].id : k \in {h \in DOMAIN handles :
        \/ h < Len(handles)
        \/ pc # "init"
        \/ method # "new"
        \/ \E i \in DOMAIN trace : trace[i].r = "rcgc"}}

\* C9: the clock-gate store sets bit N and keeps every other bit: at all times
\* the set bits of RCGCUART are the initially set bits plus the bits of the
\* constructed ids, and a store differs from the value loaded at most in bit N.
C9_GateReadModifyWrite ==
    /\ rcgcuart \in 0..255
    /\ BitsOf(rcgcuart) = BitsOf(rcgc0) \cup Gated
    /\ \A i \in DOMAIN trace : trace[i].r = "rcgc" =>
          /\ HasBit(trace[i].v, GateMask(H.id))
          /\ BitsOf(trace[i].v) \ {H.id} \subseteq BitsOf(rcgc0) \cup Gated

C9_Witness ==
    /\ pc = "idle"
    /\ rcgc0 = 130
    /\ Len(handles) = 2
    /\ handles[1].id = 0
    /\ handles[2].id = 3
    /\ rcgcuart = 139

\* The quotient n / d rounded to the nearest integer, halves up.
RoundHalfUp(n, d) == (2 * n + d) \div (2 * d)
BaudComputed == \E i \in DOMAIN trace : trace[i].r = "ibrd"

\* C10, as stated: the scaled divisor equals round((clock * 8) / (16 * baud)).
C10_RoundOfClock8Over16Baud ==
    (BaudComputed /\ H.baud <= 66000000) =>
        baud_int = RoundHalfUp(66000000 * 8, 16 * H.baud)

\* C10, amended: the scaled divisor ((clock * 8) / baud + 1) / 2 is the nearest
\* integer, halves up, to (clock * 8) / (2 * baud) = 64 * clock / (16 * baud).
C10_RoundOfClock64Over16Baud ==
    BaudComputed =>
        /\ 2 * H.baud * baud_int <= 66000000 * 8 + H.baud
        /\ 66000000 * 8 + H.baud < 2 * H.baud * (baud_int + 1)

C10_Witness ==
    /\ BaudComputed
    /\ H.baud = 115200
    /\ baud_int = 2292
    /\ RoundHalfUp(66000000 * 8, 16 * H.baud) = 286

\* Number of '\n' bytes among the first i bytes of s.
NumLF(s, i) == Cardinality({k \in 1..i : s[k] = LF})
WriteStrReturned == pc = "idle" /\ method = "write_str" /\ ret.tag = "Ok"

\* C4: write_str sends the bytes of s in order with a '\r' right before every
\* '\n': byte i of s is data-register write number i + (number of '\n' up to
\* i), each '\n' has '\r' as the write before it, and len(s) + (number of
\* '\n' in s) bytes are written; "A\nB" goes out as A, \r, \n, B. Uart::new
\* takes an id and a baud rate and the Uart has no newline mode to select, so
\* the property is stated of every write_str.
C4_CrBeforeEveryLf ==
    /\ \A i \in DOMAIN pushed : pushed[i] = LF => (i > 1 /\ pushed[i - 1] = CR)
    /\ WriteStrReturned =>
        /\ Len(pushed) = Len(arg) + NumLF(arg, Len(arg))
        /\ \A i \in DOMAIN arg :
              /\ pushed[i + NumLF(arg, i)] = arg[i]
              /\ arg[i] = LF => pushed[i + NumLF(arg, i) - 1] = CR
        /\ arg = <<ChA, LF, ChB>> => pushed = <<ChA, CR, LF, ChB>>

\* C5: putc writes the data register only after a flag-register read that saw
\* TX-FIFO-full clear, and with the hardware only draining the FIFO the write
\* never meets a full FIFO: no byte is lost and no FIFO exceeds its depth.
C5_NoWriteToFullFifo ==
    /\ ~lost
    /\ \A b \in Blocks : Len(uart[b].tx) <= TxDepth
    /\ pc = "putc_write" =>
          /\ ~HasBit(fr, UART_FR_TXFF)
          /\ ~HasBit(FlagRegister(uart[Blk]), UART_FR_TXFF)
          /\ Len(uart[Blk].tx) < TxDepth

TxFull == Len(uart[Blk].tx) >= TxDepth

\* C6: putc has no timeout: while the TX FIFO stays full a waiting putc stays
\* waiting and writes nothing; the data register is written only by the one
\* step that ends the call; and with the transmitter draining (weak fairness)
\* every putc call gets to that write and returns.
C6_PutcBlocksUntilDrained ==
    /\ [][(pc \in {"putc_wait", "putc_spin"} /\ TxFull /\ TxFull') =>
             (pc' \in {"putc_wait", "putc_spin"} /\ pushed' = pushed /\ ret' = ret)]_vars
    /\ [][/\ (pc = "putc_write" /\ pc' # pc) =>
                (pc' = "write_str" /\ pushed' = Append(pushed, value))
          /\ (pc # "idle" /\ pushed' # pushed) =>
                (pc = "putc_write" /\ pc' = "write_str")]_vars
    /\ (pc \in {"putc_wait", "putc_spin"}) ~> (pc = "write_str")

\* C7: getc_try polls once: one read of the flag register; RX FIFO empty gives
\* "would block" with the data register not read; otherwise one read of the
\* data register returns the oldest byte.  Never more than two accesses.
C7_GetcTrySingleShot ==
    /\ [](accesses <= 2)
    /\ [][pc = "getc_poll" /\ pc' # pc =>
             /\ accesses = 0
             /\ accesses' = 1
             /\ IF Len(uart[Blk].rx) = 0
                THEN pc' = "idle" /\ ret' = Ret("WouldBlock", 0) /\ uart' = uart
                ELSE pc' = "getc_read" /\ uart' = uart]_vars
    /\ [][pc = "getc_read" /\ pc' # pc =>
             /\ accesses' = 2
             /\ pc' = "idle"
             /\ Len(uart[Blk].rx) > 0
             /\ ret' = Ret("Ok", Head(uart[Blk].rx))
             /\ uart'[Blk].rx = Tail(uart[Blk].rx)]_vars

C7_Witness ==
    /\ pc = "idle"
    /\ method = "getc_try"
    /\ ret = Ret("Ok", ChA)
    /\ accesses = 2
    /\ uart[Blk].rx = << >>

\* C11: with d = 64 * ibrd + fbrd the divisor pair is the nearest integer to
\* 64 * clock / (16 * baud), halves rounded up: |64 * clock - 16 * baud * d| <=
\* 8 * baud with the upper end excluded, and fbrd is in 0..63.  (Both sides
\* are divided by 8: clock * 8 = 528,000,000.)
C11_DivisorNearest ==
    DivisorWritten =>
        LET d == 64 * uart[Blk].ibrd + uart[Blk].fbrd
            err == 66000000 * 8 - 2 * H.baud * d
        IN  /\ uart[Blk].fbrd \in 0..63
            /\ uart[Blk].ibrd >= 0
            /\ err >= -H.baud
            /\ err < H.baud

\* A tie: 64 * clock / (16 * 528,000,000) = 0.5 is rounded up to d = 1.
C11_Witness ==
    /\ DivisorWritten
    /\ H.baud = 528000000
    /\ uart[Blk].ibrd = 0
    /\ uart[Blk].fbrd = 1

AllEnables == UART_CTL_RXE + UART_CTL_TXE + UART_CTL_UARTEN
\* The running call has made no store to its control register yet, and no
\* other Uart value exists for block b.
NoCtlStoreYet(b) ==
    /\ pc = "init"
    /\ \A h \in DOMAIN handles : handles[h].reg = b => h = self
    /\ \A i \in DOMAIN trace : trace[i].r # "ctl"

\* C12, as stated: TXE, RXE and UARTEN are set together by init's last
\* register write: at no time during construction does the control register
\* hold some but not all of the three bits, and a returned new leaves exactly
\* RXE | TXE | UARTEN.
C12_NoneOrAllDuringConstruction ==
    /\ pc \in {"init", "panicked"} =>
          uart[Blk].ctl \in {0, AllEnables}
    /\ (pc = "idle" /\ method \in {"new", "init"}) =>
          uart[Blk].ctl = AllEnables

\* C12, amended: every value new/init stores to the control register is 0 or
\* exactly RXE | TXE | UARTEN, the non-zero store is the last register write
\* of the call, and a returned new/init leaves exactly RXE | TXE | UARTEN; a
\* control register holds some but not all of the three bits only as the
\* value found in it at start, in a block to whose control register no store
\* has been made yet.
C12_EnableBitsTogether ==
    /\ \A b \in Blocks :
          \/ uart[b].ctl \in {0, AllEnables}
          \/ /\ uart[b].ctl \in InitialCtls
             /\ (\E h \in DOMAIN handles : handles[h].reg = b) => NoCtlStoreYet(b)
    /\ \A i \in DOMAIN trace : (trace[i].r = "ctl" /\ trace[i].v # 0) =>
          /\ i = Len(trace)
          /\ trace[i].v = AllEnables
          /\ pc # "init"
    /\ (pc = "idle" /\ method \in {"new", "init"}) =>
          /\ uart[Blk].ctl = AllEnables
          /\ HasBit(uart[Blk].ctl, UART_CTL_RXE)
          /\ HasBit(uart[Blk].ctl, UART_CTL_TXE)
          /\ HasBit(uart[Blk].ctl, UART_CTL_UARTEN)
          /\ trace[Len(trace)].r = "ctl"

\* new has returned on a block that started with TXE and RXE set: its enabling
\* store was the first store to the control register.
C12_Witness ==
    /\ pc = "idle"
    /\ method = "new"
    /\ ret.tag = "unit"
    /\ uart[Blk].ctl = 769
    /\ trace[Len(trace)] = Wr("ctl", 769)
    /\ \A i \in 1..(Len(trace) - 1) : trace[i].r # "ctl"
    /\ \E b \in Blocks : uart[b].ctl = 768

\* The register writes of a whole init other than the disabling one, in the
\* order of the claim.
WriteOrder == <<"gpio", "rcgc", "ibrd", "fbrd", "lcrh", "rf", "ctl">>
NotDisable(w) == w # Wr("ctl", 0)

\* C14: the register writes that follow the place of the disabling write come
\* in the order ibrd, fbrd, lcrh (8 data bits, no parity, one stop bit),
\* flags, and only then the enabling write: with the disabling write set
\* aside the trace of an init is always a prefix of that order, and the whole
\* of it once init has returned; the disabling write, when it is made, is the
\* third of the trace, before all of them.
C14_WriteOrderAfterDisable ==
    /\ LET rest == SelectSeq(trace, NotDisable)
       IN  /\ Len(rest) <= Len(WriteOrder)
           /\ \A i \in DOMAIN rest : rest[i].r = WriteOrder[i]
           /\ (pc = "idle" /\ method \in {"new", "init"}) => Len(rest) = Len(WriteOrder)
    /\ \A i \in DOMAIN trace : trace[i] = Wr("ctl", 0) => i = 3
    /\ \A i \in DOMAIN trace :
          /\ trace[i].r = "lcrh" =>
                /\ trace[i].v = UART_LCRH_WLEN_8
                /\ \E j \in Before(i) : trace[j].r = "ibrd"
                /\ \E j \in Before(i) : trace[j].r = "fbrd"
                /\ \A j \in Before(i) : trace[j].r = "ctl" => trace[j].v = 0
          /\ trace[i].r = "rf" => trace[i].v = 0
          /\ (trace[i].r = "ctl" /\ trace[i].v # 0) =>
                /\ \E j \in Before(i) : trace[j].r = "lcrh"
                /\ \E j \in Before(i) : trace[j].r = "rf"
    /\ (pc = "idle" /\ method \in {"new", "init"}) =>
          uart[Blk].lcrh = UART_LCRH_WLEN_8

\* A second init that made no disabling write has written all the others.
C14_Witness ==
    /\ pc = "idle"
    /\ method = "init"
    /\ Len(trace) = 7
    /\ trace[3] = Wr("ibrd", 35)
    /\ trace[4] = Wr("fbrd", 52)
    /\ trace[5] = Wr("lcrh", 96)
    /\ trace[6] = Wr("rf", 0)
    /\ trace[7] = Wr("ctl", 769)

\* C17: the eight ids have eight different register blocks, and a running
\* new/init for one id leaves the registers and FIFOs of every other id's
\* block as they are.
C17_OnlyOwnBlockWritten ==
    /\ [](\A x, y \in UartId : x # y => get_uart_registers(x) # get_uart_registers(y))
    /\ [](Cardinality(Blocks) = 8)
    /\ [][pc = "init" =>
             \A y \in UartId \ {H.id} :
                 uart'[get_uart_registers(y)] = uart[get_uart_registers(y)]]_vars

\* Uart1 is being constructed beside a Uart0 that stays enabled and configured.
C17_Witness ==
    /\ Len(handles) = 2
    /\ handles[1].id = 0
    /\ handles[2].id = 1
    /\ At("lcrh")
    /\ self = 2
    /\ uart[UART1_DR_R].ibrd = 35
    /\ uart[UART1_DR_R].ctl = 0
    /\ uart[UART0_DR_R].ctl = 769
    /\ uart[UART0_DR_R].ibrd = 35

\* C19: new with baud = 0 does not return: the division panics after the
\* clock gate is open and the control register cleared, leaving the module
\* disabled and the divisor and line-control registers unwritten by this
\* call; with baud > 0 nothing panics and every intermediate value of the
\* divisor computation is at most 528,000,001, inside the unsigned 32-bit range.
C19_ZeroBaudPanics ==
    /\ (pc = "init" /\ H.baud = 0) =>
          \A i \in DOMAIN trace : trace[i].r \in {"gpio", "rcgc", "ctl"}
    /\ pc = "panicked" =>
          /\ H.baud = 0
          /\ ret.tag = "panic"
          /\ method = "new"
          /\ uart[Blk].ctl = 0
          /\ HasBit(rcgcuart, GateMask(H.id))
          /\ Len(trace) = 3
          /\ trace[2].r = "rcgc"
          /\ trace[3] = Wr("ctl", 0)
    /\ (pc = "idle" /\ method \in {"new", "init"}) =>
          /\ H.baud > 0
          /\ ret.tag = "unit"
    /\ \A h \in DOMAIN handles : handles[h].baud = 0 => (h = self /\ pc # "idle")
    /\ (BaudComputed /\ pc # "panicked") =>
          /\ H.baud > 0
          /\ 2 * baud_int <= 528000000 + 1
          /\ baud_int >= 0

\* The panic of a construction that found the gates of Uart1 and Uart7 open.
C19_Witness ==
    /\ pc = "panicked"
    /\ H.baud = 0
    /\ rcgc0 = 130
    /\ rcgcuart = 131
    /\ uart[Blk] = ResetBlock(0)
    /\ trace = <<Wr("gpio", 0), Wr("rcgc", 131), Wr("ctl", 0)>>

\* The last n elements of s.
Suffix(s, n) == SubSeq(s, Len(s) - n + 1, Len(s))
\* Everything written to the data register of the running method's UART that
\* the FIFO has not dropped: what the peer has received, then what is queued.
Delivered == wire[Blk] \o uart[Blk].tx

\* C15: write_str hands the bytes of s to putc one by one, unchanged and in
\* order; whatever the transmitter does meanwhile, the bytes received
\* by the peer followed by the bytes queued end with exactly the bytes written
\* so far, which are a prefix of s, and all of s once write_str has returned Ok.
C15_PassThroughInOrder ==
    method = "write_str" =>
        /\ Len(pushed) <= Len(arg)
        /\ pushed = SubSeq(arg, 1, Len(pushed))
        /\ Len(Delivered) >= Len(pushed)
        /\ Suffix(Delivered, Len(pushed)) = pushed
        /\ pc = "write_str" => Len(pushed) = idx - 1
        /\ pc \in {"putc_wait", "putc_write"} =>
              (Len(pushed) = idx - 2 /\ value = arg[idx - 1])
        /\ pc # "putc_spin"
        /\ pc = "idle" =>
              /\ ret.tag = "Ok"
              /\ pushed = arg
              /\ uart[Blk].tx = << >> => Suffix(wire[Blk], Len(arg)) = arg

InWriteStr == pc \in {"write_str", "putc_wait", "putc_write", "putc_spin"}
\* The configuration registers of a block.
Config(u) == <<u.ctl, u.ibrd, u.fbrd, u.lcrh>>

\* C16: once new has returned, write_str and putc change no control, divisor,
\* line-control or clock-gate register: the UART they run on stays enabled,
\* with the divisor of its baud rate and 8N1 framing.
C16_ReadyIsStable ==
    /\ [][InWriteStr =>
             /\ rcgcuart' = rcgcuart
             /\ gpio' = gpio
             /\ \A b \in Blocks : Config(uart'[b]) = Config(uart[b])]_vars
    /\ [](InWriteStr =>
             /\ uart[Blk].ctl = UART_CTL_RXE + UART_CTL_TXE + UART_CTL_UARTEN
             /\ uart[Blk].lcrh = UART_LCRH_WLEN_8
             /\ H.baud = 115200
             /\ uart[Blk].ibrd = 35
             /\ uart[Blk].fbrd = 52
             /\ HasBit(rcgcuart, GateMask(H.id)))

\* The second write_str after new has returned, both bytes stored.
C16_Witness ==
    /\ WriteStrReturned
    /\ calls = 3
    /\ pushed = <<ChB>>
    /\ Delivered = <<ChA, ChB>>
    /\ Config(uart[Blk]) = <<769, 35, 52, 96>>
    /\ rcgcuart = 1

\* C18: init on an already constructed Uart leaves the clock-gate register as
\* it was and ends with the control, divisor and line-control registers as
\* new left them, whatever the FIFOs hold; from its disabling statement to
\* its enabling write the control register is 0.
C18_InitIdempotent ==
    /\ [][(method = "init" /\ pc = "init") => rcgcuart' = rcgcuart]_vars
    /\ []((method = "init" /\ pc = "init") =>
             /\ HasBit(rcgcuart, GateMask(H.id))
             /\ (\E k \in 1..(ip - 1) : InitSteps[k] = "ctl0") => uart[Blk].ctl = 0)
    /\ []((pc = "idle" /\ method \in {"new", "init"}) =>
             /\ H.baud = 115200
             /\ Config(uart[Blk]) = <<769, 35, 52, 96>>
             /\ HasBit(rcgcuart, GateMask(H.id)))

\* C13, as stated: whenever at most one reload of the counter happened between
\* the reading of `previous` and get_since, the result is the number of ticks
\* that elapsed, and the result is always in 0..SYSTICK_MAX.
C13_ExactUpToOneWrap ==
    /\ delta \in 0..SYSTICK_MAX
    /\ sample.wraps <= 1 => delta = sample.elapsed

\* C13, amended: the result is the number of elapsed ticks modulo
\* SYSTICK_MAX + 1 and lies in 0..SYSTICK_MAX; it is the number of elapsed
\* ticks exactly when fewer than SYSTICK_MAX + 1 ticks elapsed, which covers
\* no reload and one reload that left the counter above `previous`; with one
\* reload and the counter at or below `previous` the result is too small.
C13_ExactWithinOnePeriod ==
    /\ delta \in 0..SYSTICK_MAX
    /\ delta = sample.elapsed % (SYSTICK_MAX + 1)
    /\ delta = get_since(sample.previous, sample.current)
    /\ sample.elapsed <= SYSTICK_MAX => delta = sample.elapsed
    /\ sample.wraps = 0 => delta = sample.elapsed
    /\ (sample.wraps = 1 /\ sample.current > sample.previous) => delta = sample.elapsed
    /\ (sample.wraps = 1 /\ sample.current <= sample.previous) => delta < sample.elapsed
    /\ (sample.previous = 100 /\ sample.current = 90 /\ sample.wraps = 0) => delta = 10
    /\ (sample.previous = 10 /\ sample.current = SYSTICK_MAX - 5 /\ sample.wraps = 1) =>
          delta = 16

\* previous = 10, current = SYSTICK_MAX - 5 after one reload: 16 ticks.
C13_Witness ==
    /\ tpc = "since"
    /\ sample = Sample(10, SYSTICK_MAX - 5, 16, 1)
    /\ delta = 16

====
